---- MODULE Spec2Model ----
(***************************************************************************)
(* Model of src/vqa.py: a Streamlit page that lists the videos of a        *)
(* storage bucket, uploads new ones, previews the selected one and asks a  *)
(* generative model to analyse it, accumulating the streamed answer.       *)
(*                                                                         *)
(* Python strings are sequences of one-character strings, so that          *)
(* str.endswith, the f-string formatting and += are computed as the code   *)
(* computes them.  Every session runs the script main() from top to bottom *)
(* on each user action; the streamed inference call is the only place      *)
(* where a script run is suspended between steps.                          *)
(***************************************************************************)
EXTENDS Integers, Sequences, FiniteSets, TLC

(***************************************************************************)
(* Bounds of the model.                                                    *)
(***************************************************************************)
StartTime == 9          \* epoch second at which the model starts
MaxTicks == 1           \* seconds the clock may advance
MaxUploads == 2         \* successful uploads, over all sessions
MaxIncrements == 2      \* increments one inference stream may deliver

(***************************************************************************)
(* Values.                                                                 *)
(***************************************************************************)
\* Python's None: a value no string of characters is equal to.
None == <<"None">>

\* Browser sessions of the page; each one runs its own copy of main().
Sessions == {"s1", "s2"}

\* bucket_name of main(), kept as one token.
bucket_name == <<"air-refueling-video-analysis-bucket">>

\* Names of the local files a user may hand to the uploader.
FileNames ==
  { <<"a", ".", "m", "p", "4">>,
    <<"a", ".", "M", "P", "4">>,
    <<"n", ".", "t", "x", "t">> }

\* The texts one streamed response may carry (response.text).
Increments == { <<"A">>, <<"B", "C">> }

\* The exceptions the storage and inference calls raise, named by the call.
ListError == <<"list_blobs">>
UploadError == <<"upload_from_file">>
SignError == <<"generate_signed_url">>
InferenceError == <<"generate_content">>
Causes == {ListError, UploadError, SignError, InferenceError}

\* The two buttons of the page; "none" is a rerun caused by any other widget.
Clicks == {"none", "upload", "run"}

(***************************************************************************)
(* Python string operations.                                               *)
(***************************************************************************)
\* bool(v) of a string or None.
Truthy(v) == v # None /\ v # << >>

\* s.endswith(suffix)
EndsWith(s, suffix) ==
  /\ Len(s) >= Len(suffix)
  /\ SubSeq(s, Len(s) - Len(suffix) + 1, Len(s)) = suffix

\* c.lower() on the characters of the model's alphabet.
LowerChar(c) ==
  CASE c = "M" -> "m"
    [] c = "P" -> "p"
    [] OTHER -> c

\* s.lower()
Lower(s) == [i \in 1..Len(s) |-> LowerChar(s[i])]

DigitChars == <<"0", "1", "2", "3", "4", "5", "6", "7", "8", "9">>

\* str(n) of a non-negative int, as the f-string of line 95 formats it.
RECURSIVE IntToStr(_)
IntToStr(n) ==
  IF n < 10 THEN <<DigitChars[n + 1]>>
  ELSE IntToStr(n \div 10) \o <<DigitChars[(n % 10) + 1]>>

\* str(v) of a string or None, as the f-string of line 203 formats it.
PyStr(v) == IF v = None THEN <<"N", "o", "n", "e">> ELSE v

(***************************************************************************)
(* State.                                                                  *)
(***************************************************************************)
VARIABLES
  now,                \* int(time.time()): the epoch second
  bucket,             \* the bucket: blob name -> number of the upload that wrote it (0: stored before)
  uploadLog,          \* history: the successful upload_video_to_gcs calls, in order
  selected_video,     \* per session: value of the selectbox of line 161
  video_options,      \* per session: st.session_state.video_options
  uploaded_blob_name, \* per session: value returned by the upload of this script run
  pc,                 \* per session: "idle" between script runs, "analyzing" inside analyze_video
  video_uri,          \* per session: the uri handed to analyze_video in this script run
  output,             \* per session: the accumulator of analyze_video
  delivered,          \* per session, history: the increments the stream has delivered
  stream_end,         \* per session, history: "none", "open", "exhausted" or "error"
  analysis_result,    \* per session: value returned by analyze_video in this script run
  ui,                 \* per session: the elements main() has rendered in this script run
  escaped             \* per session: the exception that left main() uncaught, or None

vars ==
  <<now, bucket, uploadLog, selected_video, video_options, uploaded_blob_name,
    pc, video_uri, output, delivered, stream_end, analysis_result, ui, escaped>>

MaxTime == StartTime + MaxTicks

Init ==
  /\ now = StartTime
  /\ bucket = [n \in {<<"n", ".", "t", "x", "t">>} |-> 0]
  /\ uploadLog = << >>
  /\ selected_video = [s \in Sessions |-> None]
  /\ video_options = [s \in Sessions |-> {}]
  /\ uploaded_blob_name = [s \in Sessions |-> None]
  /\ pc = [s \in Sessions |-> "idle"]
  /\ video_uri = [s \in Sessions |-> None]
  /\ output = [s \in Sessions |-> << >>]
  /\ delivered = [s \in Sessions |-> << >>]
  /\ stream_end = [s \in Sessions |-> "none"]
  /\ analysis_result = [s \in Sessions |-> None]
  /\ ui = [s \in Sessions |-> << >>]
  /\ escaped = [s \in Sessions |-> None]

(***************************************************************************)
(* Storage Gateway.                                                        *)
(***************************************************************************)
\* list_videos with the extension compared without regard to case.
list_videos_any_case(bkt) ==
  {name \in DOMAIN bkt : EndsWith(Lower(name), <<".", "m", "p", "4">>)}

\* list_videos: the names of the bucket's blobs that end with '.mp4'.
list_videos(bkt) ==
  {name \in DOMAIN bkt : EndsWith(name, <<".", "m", "p", "4">>)}

\* blob.upload_from_file: the object appears whole under its name, written by upload `id`.
put(bkt, name, id) ==
  [n \in (DOMAIN bkt) \cup {name} |-> IF n = name THEN id ELSE bkt[n]]

\* The stored name with the disambiguator appended instead of prefixed.
blob_name_suffixed(t, file) == file \o <<"_">> \o IntToStr(t)

\* The stored name of line 95.
blob_name(t, file) == IntToStr(t) \o <<"_">> \o file

\* upload_video_to_gcs whose failed write leaves the object behind.
upload_video_to_gcs_partial(bkt, t, file, fails, id) ==
  IF fails
  THEN [bucket |-> put(bkt, IntToStr(t) \o <<"_">> \o file, id), ret |-> None,
        msgs |-> << <<"error", UploadError>> >>]
  ELSE [bucket |-> put(bkt, IntToStr(t) \o <<"_">> \o file, id),
        ret |-> IntToStr(t) \o <<"_">> \o file,
        msgs |-> << <<"success", IntToStr(t) \o <<"_">> \o file>> >>]

\* upload_video_to_gcs: the bucket afterwards, the value returned and what it renders.
upload_video_to_gcs(bkt, t, file, fails, id) ==
  IF fails
  THEN [bucket |-> bkt, ret |-> None,
        msgs |-> << <<"error", UploadError>> >>]
  ELSE [bucket |-> put(bkt, blob_name(t, file), id), ret |-> blob_name(t, file),
        msgs |-> << <<"success", blob_name(t, file)>> >>]

\* st.file_uploader(type=["mp4"]): the widget lower-cases the file's extension
\* before it compares it, so clip.MP4 is accepted like clip.mp4.
file_uploader(file) == EndsWith(Lower(file), <<".", "m", "p", "4">>)

\* st.selectbox: one of the options, None when there are none.
selectbox(options) == IF options = {} THEN {None} ELSE options

\* The uri of line 203.
gs_uri(selected) ==
  <<"g", "s", ":", "/", "/">> \o bucket_name \o <<"/">> \o PyStr(selected)

\* time.time() advances.
Tick ==
  /\ now < MaxTime
  /\ now' = now + 1
  /\ UNCHANGED <<bucket, uploadLog, selected_video, video_options, uploaded_blob_name,
                 pc, video_uri, output, delivered, stream_end, analysis_result, ui,
                 escaped>>

(***************************************************************************)
(* Inference Client.                                                       *)
(***************************************************************************)
\* The accumulation with the new text put in front.
accumulate_prepend(out, text) == text \o out

\* output += response.text
accumulate(out, text) == out \o text

\* analyze_video when the stream is exhausted: return output.
stream_exhausted(out) == [ret |-> out, raised |-> None]

\* analyze_video catching the error and returning what it has so far.
stream_failed_best_effort(out) == [ret |-> out, raised |-> None]

\* analyze_video when iterating the stream raises: the exception propagates.
stream_failed(out) == [ret |-> None, raised |-> InferenceError]

(***************************************************************************)
(* Orchestration Controller: one run of the script main().                 *)
(***************************************************************************)
\* What lines 205-207 render for the value analyze_video returned.
show_result(result) ==
  IF Truthy(result)
  THEN << <<"success", <<"Analysis complete!">>>>, <<"text_area", result>> >>
  ELSE << >>

\* What lines 170-176 render for the value upload_video_to_gcs returned.
show_upload(ret) ==
  IF Truthy(ret)
  THEN << <<"success", ret>> >>
  ELSE << <<"error", <<"Upload Failed">>>> >>

\* The state a script run of session s leaves: it ended, escaped with `esc`,
\* or (run) is suspended inside analyze_video.
Render(s, bkt, log, sel, vopts, ret, msgs, esc, run) ==
  /\ bucket' = bkt
  /\ uploadLog' = log
  /\ selected_video' = [selected_video EXCEPT ![s] = sel]
  /\ video_options' = [video_options EXCEPT ![s] = vopts]
  /\ uploaded_blob_name' = [uploaded_blob_name EXCEPT ![s] = ret]
  /\ ui' = [ui EXCEPT ![s] = msgs]
  /\ escaped' = [escaped EXCEPT ![s] = esc]
  /\ pc' = [pc EXCEPT ![s] = IF run THEN "analyzing" ELSE "idle"]
  /\ video_uri' = [video_uri EXCEPT ![s] = IF run THEN gs_uri(sel) ELSE None]
  /\ output' = [output EXCEPT ![s] = << >>]
  /\ delivered' = [delivered EXCEPT ![s] = << >>]
  /\ stream_end' = [stream_end EXCEPT ![s] = IF run THEN "open" ELSE "none"]
  /\ analysis_result' = [analysis_result EXCEPT ![s] = None]
  /\ UNCHANGED now

\* main(), lines 151-204, for one user action of session s.  click: the button
\* pressed; file: the file in the uploader; sel: the option chosen in the
\* selectbox; fl, fu, fr, fs: whether the listing of line 161, the upload, the
\* listing of line 172 and the signing of line 180 raise.
main(s, click, file, sel, fl, fu, fr, fs) ==
  /\ pc[s] = "idle"
  /\ click = "upload" => file_uploader(file) /\ Len(uploadLog) < MaxUploads
  /\ IF fl
     THEN Render(s, bucket, uploadLog, selected_video[s], video_options[s], None,
                 << >>, ListError, FALSE)
     ELSE
       /\ sel \in selectbox(list_videos(bucket))
       /\ LET up == IF click = "upload"
                    THEN upload_video_to_gcs(bucket, now, file, fu, Len(uploadLog) + 1)
                    ELSE [bucket |-> bucket, ret |-> None, msgs |-> << >>]
              uploaded == click = "upload" /\ Truthy(up.ret)
              log == IF click = "upload" /\ up.ret # None
                     THEN Append(uploadLog,
                                 [orig |-> file, stored |-> up.ret, time |-> now, by |-> s])
                     ELSE uploadLog
          IN IF uploaded /\ fr
             THEN Render(s, up.bucket, log, sel, video_options[s], up.ret, up.msgs,
                         ListError, FALSE)
             ELSE
               LET vopts == IF uploaded THEN list_videos(up.bucket) ELSE video_options[s]
                   msgs == IF click = "upload" THEN up.msgs \o show_upload(up.ret) ELSE << >>
               IN IF Truthy(sel) /\ fs
                  THEN Render(s, up.bucket, log, sel, vopts, up.ret, msgs, SignError, FALSE)
                  ELSE Render(s, up.bucket, log, sel, vopts, up.ret,
                              IF Truthy(sel) THEN Append(msgs, <<"video", sel>>) ELSE msgs,
                              None, click = "run")

\* The user action `click` of session s, with the inputs it reads.
UserAction(s, click) ==
  \E fl \in BOOLEAN :
    \E sel \in (IF fl THEN {None} ELSE selectbox(list_videos(bucket))) :
      \E file \in (IF click = "upload" /\ ~fl THEN FileNames ELSE {None}) :
        \E fu \in (IF file # None THEN BOOLEAN ELSE {FALSE}) :
          \E fr \in (IF file # None /\ ~fu THEN BOOLEAN ELSE {FALSE}) :
            \E fs \in (IF ~fl /\ ~fr /\ Truthy(sel) THEN BOOLEAN ELSE {FALSE}) :
              main(s, click, file, sel, fl, fu, fr, fs)

\* Lines 146-147: the stream delivers one more response.
NextIncrement(s, text) ==
  /\ pc[s] = "analyzing"
  /\ Len(delivered[s]) < MaxIncrements
  /\ output' = [output EXCEPT ![s] = accumulate(output[s], text)]
  /\ delivered' = [delivered EXCEPT ![s] = Append(delivered[s], text)]
  /\ UNCHANGED <<now, bucket, uploadLog, selected_video, video_options,
                 uploaded_blob_name, pc, video_uri, stream_end, analysis_result, ui,
                 escaped>>

\* Lines 204-207 once analyze_video has ended with outcome r.
AfterAnalyze(s, r, how) ==
  /\ pc' = [pc EXCEPT ![s] = "idle"]
  /\ stream_end' = [stream_end EXCEPT ![s] = how]
  /\ analysis_result' = [analysis_result EXCEPT ![s] = r.ret]
  /\ escaped' = [escaped EXCEPT ![s] = r.raised]
  /\ ui' = [ui EXCEPT ![s] = IF r.raised = None THEN ui[s] \o show_result(r.ret) ELSE ui[s]]
  /\ UNCHANGED <<now, bucket, uploadLog, selected_video, video_options,
                 uploaded_blob_name, video_uri, output, delivered>>

\* The stream is exhausted: analyze_video returns and main() renders the result.
StreamExhausted(s) ==
  /\ pc[s] = "analyzing"
  /\ AfterAnalyze(s, stream_exhausted(output[s]), "exhausted")

\* Iterating the stream raises a transport or protocol error.
StreamError(s) ==
  /\ pc[s] = "analyzing"
  /\ AfterAnalyze(s, stream_failed(output[s]), "error")

\* One session uses the whole page.
Next ==
  \/ Tick
  \/ \E click \in Clicks : UserAction("s1", click)
  \/ \E text \in Increments : NextIncrement("s1", text)
  \/ StreamExhausted("s1")
  \/ StreamError("s1")

Spec == Init /\ [][Next]_vars

\* Two sessions list and upload into the one bucket they share.
NextShared ==
  \/ Tick
  \/ \E s \in Sessions, click \in {"none", "upload"} : UserAction(s, click)

SpecShared == Init /\ [][NextShared]_vars

(***************************************************************************)
(* Properties.                                                             *)
(***************************************************************************)
\* The k-th element rendered by session s is of kind `kind`.
Rendered(s, kind) == \E k \in 1..Len(ui[s]) : ui[s][k][1] = kind

\* The name ends with the four characters . m p 4.
IsVideoName(n) ==
  /\ Len(n) >= 4
  /\ n[Len(n) - 3] = "."
  /\ n[Len(n) - 2] = "m"
  /\ n[Len(n) - 1] = "p"
  /\ n[Len(n)] = "4"

\* The concatenation of a sequence of texts, first to last.
RECURSIVE Concat(_)
Concat(texts) ==
  IF texts = << >> THEN << >> ELSE Head(texts) \o Concat(Tail(texts))

\* The number a string of decimal digits denotes.
RECURSIVE StrToInt(_)
StrToInt(digits) ==
  IF digits = << >> THEN 0
  ELSE 10 * StrToInt(SubSeq(digits, 1, Len(digits) - 1))
       + (CHOOSE d \in 0..9 : DigitChars[d + 1] = digits[Len(digits)])

\* The stored name reads back as "T_N": digits denoting T, an underscore, then N.
HasStoredForm(e) ==
  \E k \in 1..Len(e.stored) :
    /\ e.stored[k] = "_"
    /\ k > 1
    /\ \A j \in 1..(k - 1) : \E d \in 1..10 : DigitChars[d] = e.stored[j]
    /\ StrToInt(SubSeq(e.stored, 1, k - 1)) = e.time
    /\ SubSeq(e.stored, k + 1, Len(e.stored)) = e.orig

\* C1: any two successful uploads of the same original name, from one session
\* or from two, get distinct stored names, and the object the first one wrote
\* is not overwritten by the second.
C1_DistinctStoredNames ==
  \A i, j \in 1..Len(uploadLog) :
    (i < j /\ uploadLog[i].orig = uploadLog[j].orig) =>
      /\ uploadLog[i].stored # uploadLog[j].stored
      /\ bucket[uploadLog[i].stored] = i

\* C2: when the stream is exhausted without error, analyze_video returns the
\* concatenation of all delivered increments in arrival order, and that text is
\* what the page shows; while the stream is open no result exists yet.
C2_ArrivalOrder ==
  \A s \in Sessions :
    /\ stream_end[s] = "exhausted" =>
         /\ analysis_result[s] = Concat(delivered[s])
         /\ delivered[s] # << >> =>
              \E k \in 1..Len(ui[s]) : ui[s][k] = <<"text_area", Concat(delivered[s])>>
    /\ stream_end[s] = "open" =>
         /\ analysis_result[s] = None
         /\ ~Rendered(s, "text_area")

\* A stream of two different increments has been consumed to its end.
C2_Witness ==
  \E s \in Sessions :
    /\ selected_video[s] # None
    /\ stream_end[s] = "exhausted"
    /\ Len(delivered[s]) = 2
    /\ delivered[s][1] # delivered[s][2]

\* C3: a run on a selected video whose stream delivers no increment and no
\* error ends with the text "" and the page renders an element that tells the
\* user so (a failed run renders none: its exception leaves main()).
C3_EmptySurfaced ==
  \A s \in Sessions :
    (stream_end[s] = "exhausted" /\ delivered[s] = << >> /\ selected_video[s] # None) =>
      /\ analysis_result[s] = << >>
      /\ \E k \in 1..Len(ui[s]) : ui[s][k][1] # "video"

\* C4: when the stream raises after any number of increments, the run fails
\* with a cause, analyze_video returns nothing and no result text is rendered.
C4_NoPartialLeak ==
  \A s \in Sessions :
    stream_end[s] = "error" =>
      /\ escaped[s] \in Causes
      /\ analysis_result[s] = None
      /\ ~Rendered(s, "text_area")
      /\ ~Rendered(s, "success")

\* The stream raised after increments had been accumulated.
C4_Witness ==
  \E s \in Sessions :
    selected_video[s] # None /\ stream_end[s] = "error" /\ Len(delivered[s]) = 2

\* C5: no failure of a storage or inference call leaves main() uncaught.
C5_NoFailureEscapes ==
  \A s \in Sessions : escaped[s] = None

\* C6: list_videos returns exactly the stored names that end with .mp4, and
\* every option and selection the page holds is such a name.
C6_ListedAreVideos ==
  /\ \A n \in DOMAIN bucket : n \in list_videos(bucket) <=> IsVideoName(n)
  /\ list_videos(bucket) \subseteq DOMAIN bucket
  /\ \A s \in Sessions :
       /\ \A n \in video_options[s] : IsVideoName(n)
       /\ selected_video[s] # None => IsVideoName(selected_video[s])

\* A session holds a refreshed list while the bucket also stores a text file
\* and a video whose extension is in upper case.
C6_Witness ==
  /\ \E s \in Sessions : video_options[s] # {} /\ selected_video[s] # None
  /\ \E n \in DOMAIN bucket : n[Len(n)] = "t"
  /\ \E n \in DOMAIN bucket : n[Len(n) - 1] = "P"

\* C7 as stated: every successful upload of N at second T is stored as "T_N",
\* every later listing contains that name, and so does the list main() fetches
\* right after the upload, whatever name the uploader accepted.
C7_UploadedIsListed ==
  /\ \A i \in 1..Len(uploadLog) :
       /\ HasStoredForm(uploadLog[i])
       /\ uploadLog[i].stored \in list_videos(bucket)
  /\ \A s \in Sessions :
       (Truthy(uploaded_blob_name[s]) /\ escaped[s] # ListError) =>
         uploaded_blob_name[s] \in video_options[s]

\* C7, the part that holds: the same, for the original names that end with .mp4.
C7_Mp4UploadedIsListed ==
  /\ \A i \in 1..Len(uploadLog) :
       /\ HasStoredForm(uploadLog[i])
       /\ IsVideoName(uploadLog[i].orig) =>
            uploadLog[i].stored \in list_videos(bucket)
  /\ \A s \in Sessions :
       (Truthy(uploaded_blob_name[s]) /\ escaped[s] # ListError
          /\ IsVideoName(uploaded_blob_name[s])) =>
         uploaded_blob_name[s] \in video_options[s]

\* A file ending with .mp4 was uploaded at a second of two digits and the
\* session's refreshed list holds its stored name.
C7_Witness ==
  \E s \in Sessions :
    /\ uploaded_blob_name[s] = <<"1", "0", "_", "a", ".", "m", "p", "4">>
    /\ uploaded_blob_name[s] \in video_options[s]
    /\ \E i \in 1..Len(uploadLog) : uploadLog[i].stored = uploaded_blob_name[s]

\* C8: a script run whose upload fails leaves the bucket, and so every
\* listing, as it was, returns no stored name and renders the error with its
\* cause.
C8_FailedUploadLeavesNamespace ==
  [][\A s \in Sessions, file \in FileNames, fr \in BOOLEAN, fs \in BOOLEAN :
       \A sel \in selectbox(list_videos(bucket)) :
         main(s, "upload", file, sel, FALSE, TRUE, fr, fs) =>
           /\ bucket' = bucket
           /\ list_videos(bucket') = list_videos(bucket)
           /\ uploadLog' = uploadLog
           /\ uploaded_blob_name'[s] = None
           /\ \E k \in 1..Len(ui'[s]) : ui'[s][k] = <<"error", UploadError>>
           /\ \E k \in 1..Len(ui'[s]) : ui'[s][k] = <<"error", <<"Upload Failed">>>>]_vars

\* An upload has failed in a bucket that already lists a video.
C8_Witness ==
  \E s \in Sessions :
    /\ uploaded_blob_name[s] = None
    /\ \E k \in 1..Len(ui[s]) : ui[s][k] = <<"error", UploadError>>
    /\ list_videos(bucket) # {}

\* C9: an inference request is only ever issued with a selected stored video,
\* and the uri it sends names that video.
C9_RunOnlyWithSelection ==
  \A s \in Sessions :
    stream_end[s] # "none" =>
      /\ selected_video[s] # None
      /\ selected_video[s] \in DOMAIN bucket
      /\ video_uri[s] = <<"g", "s", ":", "/", "/">> \o bucket_name \o <<"/">>
                          \o selected_video[s]

\* C10: whatever cap is configured, in a run on a selected video no further
\* increment is consumed once the accumulated text is longer than the cap: the
\* text before the last consumed increment was never longer than the cap.
C10_StopsAtCap ==
  \A s \in Sessions, cap \in 1..MaxIncrements :
    (delivered[s] # << >> /\ selected_video[s] # None) =>
      Len(output[s]) - Len(delivered[s][Len(delivered[s])]) <= cap

====
